---- MODULE Spec2Model ----
(***************************************************************************)
(* State-machine model of the InterviewSession component: the session      *)
(* lifecycle (init effect / cleanup), the capture callback, the playback   *)
(* scheduler of onmessage, and the device/track handlers.                  *)
(*                                                                         *)
(* The runtime is a single-threaded event loop: every action below is one  *)
(* run-to-completion callback, or the part of an async function between    *)
(* two awaits.                                                             *)
(***************************************************************************)
EXTENDS Integers, Sequences, FiniteSets, TLC

\* ---- bounds of the model --------------------------------------------------
MaxTime == 2        \* largest value of the output clock
MaxDur == 2         \* largest duration of a decoded buffer
MaxMsgs == 2        \* inbound messages delivered to onmessage
MaxTracks == 4      \* device tracks acquired over the component's life
MaxPending == 2     \* track acquisitions in flight at once
MaxFrames == 2      \* capture callbacks fired
MaxCleanups == 2    \* invocations of cleanup
MaxInterviews == 2  \* interviews started in App

VARIABLES
  \* React state of App
  appState,           \* "SETUP" | "INTERVIEW" | "ENDED"
  userConfig,         \* "null" or the config handed to handleStart
  timers,             \* pending setTimeout resets, by the interview whose handleEnd set them
  interviews,         \* interviews started so far
  \* React state of InterviewSession
  isConnected, isMicOn, isCameraOn, isScreenSharing, error,
  \* refs
  mounted,            \* videoRef.current is non-null exactly while mounted
  mediaStreamRef,     \* [isNull, tracks]: tracks is the stream's track list
  audioContextRef, inputContextRef, processorRef, sourceRef,
  nextStartTimeRef, sessionRef,
  \* value of isMicOn captured by the closures the init effect creates
  closureIsMicOn,
  \* objects behind the refs
  tracks,             \* every track acquired so far, indexed by id
  inputCtxState, audioCtxState,   \* "none" | "running" | "closed"
  procState,          \* capture graph: "none" | "connected" | "disconnected"
  sessionState,       \* "none" | "connecting" | "open" | "closed" | "failed"
  promiseState,       \* the promise of connect: "none" | "pending" | "resolved" | "rejected"
  \* positions of the async functions
  initPc,             \* init: "awaitGUM" | "done" | "failed"
  inflight,           \* onmessage invocations suspended at the decode
  pendingShare,       \* toggleScreenShare calls suspended at getDisplayMedia
  pendingStop,        \* stopScreenShare calls suspended at getUserMedia
  pendingSends,       \* then-callbacks registered on the pending connect promise
  \* environment
  now,                \* currentTime of the output audio context
  \* observation (history) variables
  scheduled,          \* buffers handed to source.start, in scheduling order
  epoch,              \* number of resets of nextStartTimeRef executed
  resetInfo,          \* the last reset, until the next buffer is scheduled
  msgCount, frames, sent, mutedSent,
  startupLog,         \* the startup steps taken so far, in the order the code took them
  terminal,           \* "no" | "yes": onclose or onerror was delivered | "sent": and a frame was sent after it
  cleanupCalls, cleanupThrew,
  cleanupRun,         \* length of the current run of consecutive cleanup calls
  lastOp,             \* the handler that ran last
  lastNew,            \* id of the track the last transition acquired (0: none)
  lastOld,            \* id of the track the last transition replaced (0: none)
  micSnap             \* the current run of consecutive toggleMic calls

vars == << appState, userConfig, timers, interviews, isConnected, isMicOn, isCameraOn, isScreenSharing, error,
           mounted, mediaStreamRef, audioContextRef, inputContextRef,
           processorRef, sourceRef, nextStartTimeRef, sessionRef,
           closureIsMicOn, tracks, inputCtxState, audioCtxState, procState,
           sessionState, promiseState, initPc, inflight, pendingShare,
           pendingStop, pendingSends, now, scheduled, epoch, resetInfo,
           msgCount, frames, sent, mutedSent, terminal, startupLog, cleanupCalls,
           cleanupThrew, cleanupRun, lastOp, lastNew, lastOld, micSnap >>

\* groups of variables, for UNCHANGED
uiVars == << isConnected, isMicOn, isCameraOn, isScreenSharing, error >>
playVars == << nextStartTimeRef, inflight, now, scheduled, epoch, resetInfo, msgCount >>
capVars == << frames, sent, mutedSent, pendingSends, terminal >>
swapVars == << pendingShare, pendingStop, lastNew, lastOld >>
ctxVars == << audioContextRef, inputContextRef, inputCtxState, audioCtxState >>
procVars == << processorRef, sourceRef, procState, startupLog >>
sessVars == << sessionRef, sessionState, promiseState >>
appVars == << appState, userConfig, timers, interviews >>
\* written only by teardown and by App's handlers
cleanVars == << cleanupCalls, cleanupThrew, appVars >>

Max(a, b) == IF a >= b THEN a ELSE b
Min(a, b) == IF a <= b THEN a ELSE b

\* ---- media streams and tracks ---------------------------------------------
NoStream == [isNull |-> TRUE, tracks |-> << >>]

NewTrack(k, h) == [kind |-> k, live |-> TRUE, enabled |-> TRUE, onended |-> h]

\* MediaStream.getTracks / getAudioTracks / getVideoTracks
getTracks(ids, tr) == ids

getAudioTracks(ids, tr) == SelectSeq(ids, LAMBDA i : tr[i].kind = "audio")

\* variant: getTracks written where getVideoTracks is meant
getVideoTracks_All(ids, tr) == ids

getVideoTracks(ids, tr) == SelectSeq(ids, LAMBDA i : tr[i].kind # "audio")

Elems(s) == { s[i] : i \in 1..Len(s) }

\* MediaStreamTrack.stop() on each track of ids
StopAll(tr, ids) ==
  [i \in 1..Len(tr) |-> IF i \in Elems(ids) THEN [tr[i] EXCEPT !.live = FALSE] ELSE tr[i]]

\* track.enabled = v on each track of ids
SetEnabled(tr, ids, v) ==
  [i \in 1..Len(tr) |-> IF i \in Elems(ids) THEN [tr[i] EXCEPT !.enabled = v] ELSE tr[i]]

\* MediaStream.removeTrack
removeTrack(ids, t) == SelectSeq(ids, LAMBDA i : i # t)

\* a handler other than toggleMic and cleanup ends the current run of either
NoSnap == [run |-> 0, isMicOn |-> TRUE, audio |-> << >>, transmits |-> FALSE]

ResetRuns == micSnap' = NoSnap /\ cleanupRun' = 0

\* setState of an unmounted component is ignored
SetState(old, new) == IF mounted THEN new ELSE old

\* ---- init (the effect run at mount) ---------------------------------------
\* a newly rendered InterviewSession
InterviewSessionMounted ==
  /\ isConnected = FALSE /\ isMicOn = TRUE /\ isCameraOn = TRUE
  /\ isScreenSharing = FALSE /\ error = FALSE
  /\ mounted = TRUE
  /\ mediaStreamRef = NoStream
  /\ audioContextRef = "null" /\ inputContextRef = "null"
  /\ processorRef = "null" /\ sourceRef = "null"
  /\ nextStartTimeRef = 0 /\ sessionRef = "null"
  /\ closureIsMicOn = TRUE
  /\ tracks = << >>
  /\ inputCtxState = "none" /\ audioCtxState = "none"
  /\ procState = "none"
  /\ sessionState = "none" /\ promiseState = "none"
  /\ initPc = "awaitGUM"
  /\ inflight = {}
  /\ pendingShare = 0 /\ pendingStop = 0
  /\ pendingSends = << >>
  /\ now = 0
  /\ scheduled = << >>
  /\ epoch = 0
  /\ resetInfo = [armed |-> FALSE, sigNow |-> 0, preNst |-> 0]
  /\ msgCount = 0 /\ frames = 0 /\ sent = 0 /\ mutedSent = 0
  /\ terminal = "no"
  /\ startupLog = << >>
  /\ cleanupCalls = 0 /\ cleanupThrew = FALSE /\ cleanupRun = 0
  /\ lastOp = "mount"
  /\ lastNew = 0 /\ lastOld = 0
  /\ micSnap = NoSnap

UserConfigs == {"configA", "configB"}
NoConfig == "null"

\* App after its first handleStart, rendering the InterviewSession
Init ==
  /\ appState = "INTERVIEW"
  /\ userConfig = "configA"
  /\ timers = {}
  /\ interviews = 1
  /\ InterviewSessionMounted

\* variant: the catch of init logs the failure and sets no message
InitErrorMessage_Null == FALSE

\* setError("Could not access camera/microphone or connect to API."):
\* error holds whether the message is non-null
InitErrorMessage == TRUE

\* variant: init calls ai.live.connect before it creates the audio contexts
InitOrder_ConnectFirst == << "stream", "connect", "inputContext", "outputContext" >>

\* the statements of init after its await, in program order: mediaStreamRef
\* is set, the two AudioContexts are created, ai.live.connect is called
InitOrder == << "stream", "inputContext", "outputContext", "connect" >>

\* the steps of InitOrder taken when the GoogleGenAI constructor, which
\* precedes the connect call, throws
BeforeConnect(order) == SelectSeq(order, LAMBDA e : e # "connect")

\* getUserMedia of init resolves: the rest of init runs.  apiOk = FALSE is
\* the GoogleGenAI constructor throwing, which init's catch handles.
InitGetUserMediaResolve(apiOk) ==
  /\ initPc = "awaitGUM"
  /\ Len(tracks) + 2 <= MaxTracks
  /\ tracks' = tracks \o << NewTrack("audio", FALSE), NewTrack("camera", FALSE) >>
  /\ mediaStreamRef' = [isNull |-> FALSE, tracks |-> << Len(tracks) + 1, Len(tracks) + 2 >>]
  /\ inputContextRef' = "ctx" /\ inputCtxState' = "running"
  /\ audioContextRef' = "ctx" /\ audioCtxState' = "running"
  /\ IF apiOk
       THEN /\ sessionState' = "connecting"
            /\ promiseState' = "pending"
            /\ sessionRef' = "promise"
            /\ initPc' = "done"
            /\ error' = error
            /\ startupLog' = startupLog \o InitOrder
       ELSE /\ error' = SetState(error, InitErrorMessage)
            /\ initPc' = "failed"
            /\ startupLog' = startupLog \o BeforeConnect(InitOrder)
            /\ UNCHANGED sessVars
  /\ ResetRuns
  /\ lastOp' = "init"
  /\ UNCHANGED << isConnected, isMicOn, isCameraOn, isScreenSharing, mounted,
                  closureIsMicOn, processorRef, sourceRef, procState,
                  playVars, capVars, swapVars, cleanVars >>

\* getUserMedia of init rejects: init's catch
InitGetUserMediaReject ==
  /\ initPc = "awaitGUM"
  /\ initPc' = "failed"
  /\ error' = SetState(error, InitErrorMessage)
  /\ ResetRuns
  /\ lastOp' = "initFailed"
  /\ UNCHANGED << isConnected, isMicOn, isCameraOn, isScreenSharing, mounted,
                  mediaStreamRef, tracks, closureIsMicOn, ctxVars, procVars,
                  sessVars, playVars, capVars, swapVars, cleanVars >>

\* ---- Transport Session callbacks ------------------------------------------
onopen ==
  /\ sessionState = "connecting"
  /\ sessionState' = "open"
  /\ isConnected' = SetState(isConnected, TRUE)
  /\ IF inputContextRef = "null" \/ mediaStreamRef.isNull
       THEN /\ startupLog' = Append(startupLog, "onopen")
            /\ UNCHANGED << processorRef, sourceRef, procState >>
       ELSE /\ sourceRef' = "node"
            /\ processorRef' = "node"
            /\ procState' = "connected"
            /\ startupLog' = startupLog \o << "onopen", "processor" >>
  /\ ResetRuns
  /\ lastOp' = "onopen"
  /\ UNCHANGED << isMicOn, isCameraOn, isScreenSharing, error, mounted,
                  mediaStreamRef, tracks, closureIsMicOn, ctxVars, sessionRef,
                  promiseState, initPc, playVars, capVars, swapVars,
                  cleanVars >>

CountMuted(s) == Cardinality({ i \in 1..Len(s) : s[i] })

\* the promise of ai.live.connect resolves: the then-callbacks registered by
\* the capture callback run and call session.sendRealtimeInput
ConnectResolve ==
  /\ promiseState = "pending"
  /\ sessionState \in {"open", "closed"}
  /\ promiseState' = "resolved"
  /\ sent' = sent + Len(pendingSends)
  /\ mutedSent' = mutedSent + CountMuted(pendingSends)
  /\ pendingSends' = << >>
  /\ terminal' = IF terminal = "yes" /\ Len(pendingSends) > 0 THEN "sent" ELSE terminal
  /\ ResetRuns
  /\ lastOp' = "connectResolve"
  /\ UNCHANGED << uiVars, mounted, mediaStreamRef, tracks, closureIsMicOn,
                  ctxVars, procVars, sessionRef, sessionState, initPc,
                  playVars, frames, swapVars, cleanVars >>

\* the promise of ai.live.connect rejects; init does not await it
ConnectReject ==
  /\ promiseState = "pending"
  /\ sessionState = "connecting"
  /\ promiseState' = "rejected"
  /\ sessionState' = "failed"
  /\ pendingSends' = << >>
  /\ ResetRuns
  /\ lastOp' = "connectReject"
  /\ UNCHANGED << uiVars, mounted, mediaStreamRef, tracks, closureIsMicOn,
                  ctxVars, procVars, sessionRef, initPc, playVars, frames,
                  sent, mutedSent, terminal, swapVars, cleanVars >>

onclose ==
  /\ sessionState = "open"
  /\ sessionState' = "closed"
  /\ isConnected' = SetState(isConnected, FALSE)
  /\ terminal' = IF terminal = "no" THEN "yes" ELSE terminal
  /\ ResetRuns
  /\ lastOp' = "onclose"
  /\ UNCHANGED << isMicOn, isCameraOn, isScreenSharing, error, mounted,
                  mediaStreamRef, tracks, closureIsMicOn, ctxVars, procVars,
                  sessionRef, promiseState, initPc, playVars, frames, sent,
                  mutedSent, pendingSends, swapVars, cleanVars >>

onerror ==
  /\ sessionState \in {"connecting", "open"}
  /\ error' = SetState(error, TRUE)
  /\ terminal' = IF terminal = "no" THEN "yes" ELSE terminal
  /\ ResetRuns
  /\ lastOp' = "onerror"
  /\ UNCHANGED << isConnected, isMicOn, isCameraOn, isScreenSharing, mounted,
                  mediaStreamRef, tracks, closureIsMicOn, ctxVars, procVars,
                  sessVars, initPc, playVars, frames, sent, mutedSent,
                  pendingSends, swapVars, cleanVars >>

\* ---- Playback Scheduler and Interruption Handler (onmessage) --------------
\* results of decodeAudioData(decode(base64Audio), ctx, 24000, 1): a failure,
\* or a buffer with a positive duration
DecodeResults ==
  {[ok |-> FALSE, duration |-> 0]} \cup {[ok |-> TRUE, duration |-> d] : d \in 1..MaxDur}

\* variant: the clock is overwritten with the context's current time
ArrivalClock_NoMax(nst, t) == t

\* nextStartTimeRef.current = Math.max(nextStartTimeRef.current, ctx.currentTime)
ArrivalClock(nst, t) == Max(nst, t)

\* variant: the interruption leaves the clock as it is
InterruptReset_Keep(nst) == nst

\* nextStartTimeRef.current = 0
InterruptReset(nst) == 0

\* variant: the clock is set to the buffer's duration instead of advanced by it
AdvanceClock_Set(nst, d) == d

\* nextStartTimeRef.current += audioBuffer.duration
AdvanceClock(nst, d) == nst + d

\* onmessage up to its await: a message carrying audio and/or the
\* interrupted flag is delivered
onmessage(audio, interrupted) ==
  /\ sessionState = "open"
  /\ msgCount < MaxMsgs
  /\ audio \/ interrupted
  /\ msgCount' = msgCount + 1
  /\ IF audio /\ audioContextRef # "null"
       THEN \* suspended at the decode; the interrupted check runs after it
            /\ nextStartTimeRef' = ArrivalClock(nextStartTimeRef, now)
            /\ inflight' = inflight \cup
                 {[seq |-> msgCount + 1, interrupted |-> interrupted,
                   arrEpoch |-> epoch, arrNow |-> now,
                   nstBefore |-> nextStartTimeRef]}
            /\ UNCHANGED << epoch, resetInfo >>
       ELSE IF interrupted
         THEN /\ nextStartTimeRef' = InterruptReset(nextStartTimeRef)
              /\ epoch' = epoch + 1
              /\ resetInfo' = [armed |-> TRUE, sigNow |-> now, preNst |-> nextStartTimeRef]
              /\ UNCHANGED inflight
         ELSE UNCHANGED << nextStartTimeRef, inflight, epoch, resetInfo >>
  /\ ResetRuns
  /\ lastOp' = "onmessage"
  /\ UNCHANGED << uiVars, mounted, mediaStreamRef, tracks, closureIsMicOn,
                  ctxVars, procVars, sessVars, initPc, now, scheduled,
                  capVars, swapVars, cleanVars >>

\* the decode of chunk c settles: the rest of onmessage runs
DecodeComplete(c, r) ==
  /\ c \in inflight
  /\ inflight' = inflight \ {c}
  /\ LET nstSched == IF r.ok THEN AdvanceClock(nextStartTimeRef, r.duration)
                             ELSE nextStartTimeRef
     IN  /\ scheduled' =
              IF r.ok
                THEN Append(scheduled,
                       [seq |-> c.seq, start |-> nextStartTimeRef,
                        dur |-> r.duration, arrEpoch |-> c.arrEpoch,
                        schedEpoch |-> epoch, at |-> now,
                        afterReset |-> resetInfo.armed,
                        sigNow |-> resetInfo.sigNow,
                        preNst |-> resetInfo.preNst])
                ELSE scheduled
         /\ IF c.interrupted
              THEN /\ nextStartTimeRef' = InterruptReset(nstSched)
                   /\ epoch' = epoch + 1
                   /\ resetInfo' = [armed |-> TRUE, sigNow |-> c.arrNow, preNst |-> nstSched]
              ELSE /\ nextStartTimeRef' = nstSched
                   /\ epoch' = epoch
                   /\ resetInfo' = IF r.ok THEN [resetInfo EXCEPT !.armed = FALSE]
                                           ELSE resetInfo
  /\ ResetRuns
  /\ lastOp' = "onmessage"
  /\ UNCHANGED << uiVars, mounted, mediaStreamRef, tracks, closureIsMicOn,
                  ctxVars, procVars, sessVars, initPc, now, msgCount,
                  capVars, swapVars, cleanVars >>

\* the output context's clock advances while the context runs
Tick ==
  /\ audioCtxState = "running"
  /\ now < MaxTime
  /\ now' = now + 1
  /\ UNCHANGED << lastOp, cleanupRun, uiVars, mounted, mediaStreamRef, tracks, closureIsMicOn,
                  ctxVars, procVars, sessVars, initPc, nextStartTimeRef,
                  inflight, scheduled, epoch, resetInfo, msgCount,
                  capVars, swapVars, cleanVars, micSnap >>

\* ---- Capture Encoder (processor.onaudioprocess) ---------------------------
\* the script processor fires while its graph is connected and its context runs
onaudioprocess ==
  /\ procState = "connected"
  /\ inputCtxState = "running"
  /\ frames < MaxFrames
  /\ frames' = frames + 1
  /\ IF ~closureIsMicOn
       THEN UNCHANGED << sent, mutedSent, pendingSends >>
       ELSE IF sessionRef = "null" \/ promiseState = "rejected"
         THEN UNCHANGED << sent, mutedSent, pendingSends >>
         ELSE IF promiseState = "resolved"
           THEN /\ sent' = sent + 1
                /\ mutedSent' = mutedSent + (IF isMicOn THEN 0 ELSE 1)
                /\ UNCHANGED pendingSends
           ELSE /\ pendingSends' = Append(pendingSends, ~isMicOn)
                /\ UNCHANGED << sent, mutedSent >>
  /\ terminal' = IF terminal = "yes" /\ sent' > sent THEN "sent" ELSE terminal
  /\ ResetRuns
  /\ lastOp' = "onaudioprocess"
  /\ UNCHANGED << uiVars, mounted, mediaStreamRef, tracks, closureIsMicOn,
                  ctxVars, procVars, sessVars, initPc, playVars, swapVars,
                  cleanVars >>

\* whether a frame captured now is handed to the transport
Transmits ==
  /\ procState = "connected" /\ inputCtxState = "running"
  /\ closureIsMicOn
  /\ sessionRef # "null" /\ promiseState # "rejected"

\* ---- device handlers ------------------------------------------------------
AudioFlags ==
  IF mediaStreamRef.isNull THEN << >>
  ELSE LET a == getAudioTracks(mediaStreamRef.tracks, tracks)
       IN  [i \in 1..Len(a) |-> [id |-> a[i], live |-> tracks[a[i]].live,
                                 enabled |-> tracks[a[i]].enabled]]

\* variant: track.enabled = isMicOn
MicTrackEnabled_Same(micOn) == micOn

\* track.enabled = !isMicOn
MicTrackEnabled(micOn) == ~micOn

toggleMic ==
  /\ mounted
  /\ IF ~mediaStreamRef.isNull
       THEN /\ tracks' = SetEnabled(tracks, getAudioTracks(mediaStreamRef.tracks, tracks),
                                    MicTrackEnabled(isMicOn))
            /\ isMicOn' = ~isMicOn
       ELSE UNCHANGED << tracks, isMicOn >>
  /\ micSnap' = IF micSnap.run = 1
                  THEN [micSnap EXCEPT !.run = 2]
                  ELSE [run |-> 1, isMicOn |-> isMicOn, audio |-> AudioFlags,
                        transmits |-> Transmits]
  /\ cleanupRun' = 0
  /\ lastOp' = "toggleMic"
  /\ UNCHANGED << isConnected, isCameraOn, isScreenSharing, error, mounted,
                  mediaStreamRef, closureIsMicOn, ctxVars, procVars, sessVars,
                  initPc, playVars, capVars, swapVars, cleanVars >>

toggleCamera ==
  /\ mounted
  /\ IF ~mediaStreamRef.isNull
       THEN /\ tracks' = SetEnabled(tracks, getVideoTracks(mediaStreamRef.tracks, tracks),
                                    ~isCameraOn)
            /\ isCameraOn' = ~isCameraOn
       ELSE UNCHANGED << tracks, isCameraOn >>
  /\ ResetRuns
  /\ lastOp' = "toggleCamera"
  /\ UNCHANGED << isConnected, isMicOn, isScreenSharing, error, mounted,
                  mediaStreamRef, closureIsMicOn, ctxVars, procVars, sessVars,
                  initPc, playVars, capVars, swapVars, cleanVars >>

\* toggleScreenShare up to its await (getDisplayMedia), or its else branch,
\* which calls stopScreenShare, itself suspended at getUserMedia
toggleScreenShare ==
  /\ mounted
  /\ pendingShare + pendingStop < MaxPending
  /\ IF ~isScreenSharing
       THEN /\ pendingShare' = pendingShare + 1
            /\ UNCHANGED pendingStop
       ELSE /\ pendingStop' = pendingStop + 1
            /\ UNCHANGED pendingShare
  /\ ResetRuns
  /\ lastOp' = "toggleScreenShare"
  /\ UNCHANGED << uiVars, mounted, mediaStreamRef, tracks, closureIsMicOn,
                  ctxVars, procVars, sessVars, initPc, playVars, capVars,
                  lastNew, lastOld, cleanVars >>

\* the swap both transitions perform once the new track t is acquired:
\*   old = stream.getVideoTracks()[0]; old.stop(); stream.removeTrack(old);
\*   stream.addTrack(t)
\* thrown is the TypeError of calling stop on undefined
SwapThrows == Len(getVideoTracks(mediaStreamRef.tracks, tracks)) = 0

SwapTracks(tr) ==
  LET old == getVideoTracks(mediaStreamRef.tracks, tracks)[1]
  IN  StopAll(tr, << old >>)

SwapStream(t) ==
  LET old == getVideoTracks(mediaStreamRef.tracks, tracks)[1]
  IN  [isNull |-> FALSE, tracks |-> Append(removeTrack(mediaStreamRef.tracks, old), t)]

\* getDisplayMedia resolves: the rest of toggleScreenShare's try block
ScreenShareResolve ==
  /\ pendingShare > 0
  /\ Len(tracks) < MaxTracks
  /\ pendingShare' = pendingShare - 1
  /\ LET t == Len(tracks) + 1
         swap == mounted /\ ~mediaStreamRef.isNull
     IN  /\ lastNew' = t
         /\ lastOld' = IF swap /\ ~SwapThrows
                         THEN getVideoTracks(mediaStreamRef.tracks, tracks)[1] ELSE 0
         /\ IF swap /\ SwapThrows
              THEN \* caught: onended is not registered, the flag is not set
                   /\ tracks' = Append(tracks, NewTrack("screen", FALSE))
                   /\ UNCHANGED << mediaStreamRef, isScreenSharing >>
              ELSE /\ tracks' = IF swap
                                  THEN SwapTracks(Append(tracks, NewTrack("screen", TRUE)))
                                  ELSE Append(tracks, NewTrack("screen", TRUE))
                   /\ mediaStreamRef' = IF swap THEN SwapStream(t) ELSE mediaStreamRef
                   /\ isScreenSharing' = SetState(isScreenSharing, TRUE)
  /\ ResetRuns
  /\ lastOp' = IF mounted /\ ~mediaStreamRef.isNull /\ SwapThrows
                 THEN "screenShareFailed" ELSE "screenShareResolve"
  /\ UNCHANGED << isConnected, isMicOn, isCameraOn, error, mounted,
                  closureIsMicOn, ctxVars, procVars, sessVars, initPc,
                  playVars, capVars, pendingStop, cleanVars >>

\* getDisplayMedia rejects: toggleScreenShare's catch
ScreenShareReject ==
  /\ pendingShare > 0
  /\ pendingShare' = pendingShare - 1
  /\ lastNew' = 0 /\ lastOld' = 0
  /\ ResetRuns
  /\ lastOp' = "screenShareReject"
  /\ UNCHANGED << uiVars, mounted, mediaStreamRef, tracks, closureIsMicOn,
                  ctxVars, procVars, sessVars, initPc, playVars, capVars,
                  pendingStop, cleanVars >>

\* getUserMedia of stopScreenShare resolves: the rest of its try block
StopShareResolve ==
  /\ pendingStop > 0
  /\ Len(tracks) < MaxTracks
  /\ pendingStop' = pendingStop - 1
  /\ LET t == Len(tracks) + 1
         swap == mounted /\ ~mediaStreamRef.isNull
     IN  /\ lastNew' = t
         /\ lastOld' = IF swap /\ ~SwapThrows
                         THEN getVideoTracks(mediaStreamRef.tracks, tracks)[1] ELSE 0
         /\ IF swap /\ SwapThrows
              THEN /\ tracks' = Append(tracks, NewTrack("camera", FALSE))
                   /\ UNCHANGED << mediaStreamRef, isScreenSharing >>
              ELSE /\ tracks' = IF swap
                                  THEN SwapTracks(Append(tracks, NewTrack("camera", FALSE)))
                                  ELSE Append(tracks, NewTrack("camera", FALSE))
                   /\ mediaStreamRef' = IF swap THEN SwapStream(t) ELSE mediaStreamRef
                   /\ isScreenSharing' = SetState(isScreenSharing, FALSE)
  /\ ResetRuns
  /\ lastOp' = IF mounted /\ ~mediaStreamRef.isNull /\ SwapThrows
                 THEN "stopShareFailed" ELSE "stopShareResolve"
  /\ UNCHANGED << isConnected, isMicOn, isCameraOn, error, mounted,
                  closureIsMicOn, ctxVars, procVars, sessVars, initPc,
                  playVars, capVars, pendingShare, cleanVars >>

\* getUserMedia of stopScreenShare rejects: its catch
StopShareReject ==
  /\ pendingStop > 0
  /\ pendingStop' = pendingStop - 1
  /\ lastNew' = 0 /\ lastOld' = 0
  /\ ResetRuns
  /\ lastOp' = "stopShareReject"
  /\ UNCHANGED << uiVars, mounted, mediaStreamRef, tracks, closureIsMicOn,
                  ctxVars, procVars, sessVars, initPc, playVars, capVars,
                  pendingShare, cleanVars >>

\* variant: the ended event of the screen track is not handled
OnEndedStops_None(registered) == 0

\* screenTrack.onended = () => { stopScreenShare(); }: the number of
\* stopScreenShare calls an ended event makes
OnEndedStops(registered) == IF registered THEN 1 ELSE 0

\* the capture behind screen track t is ended from outside the app: the
\* track ends and its onended handler, if registered, calls stopScreenShare
ScreenTrackEnded(t) ==
  /\ t \in 1..Len(tracks)
  /\ tracks[t].kind = "screen" /\ tracks[t].live
  /\ pendingShare + pendingStop < MaxPending
  /\ tracks' = [tracks EXCEPT ![t].live = FALSE]
  /\ pendingStop' = pendingStop + OnEndedStops(tracks[t].onended)
  /\ ResetRuns
  /\ lastOp' = "screenTrackEnded"
  /\ UNCHANGED << uiVars, mounted, mediaStreamRef, closureIsMicOn, ctxVars,
                  procVars, sessVars, initPc, playVars, capVars, pendingShare,
                  lastNew, lastOld, cleanVars >>

\* ---- cleanup --------------------------------------------------------------
\* variant: the ref keeps the released resource
RefAfterRelease_Kept(ref) == ref

\* ref.current = null after the resource is released
RefAfterRelease(ref) == "null"

\* AudioContext.close() fails on a context that is already closed
CloseFails(ref, st) == ref # "null" /\ st = "closed"

cleanup ==
  /\ processorRef' = IF processorRef # "null" THEN RefAfterRelease(processorRef) ELSE processorRef
  /\ sourceRef' = IF sourceRef # "null" THEN RefAfterRelease(sourceRef) ELSE sourceRef
  /\ procState' = IF processorRef # "null" \/ sourceRef # "null"
                    THEN "disconnected" ELSE procState
  /\ inputContextRef' = IF inputContextRef # "null" THEN RefAfterRelease(inputContextRef)
                                                    ELSE inputContextRef
  /\ inputCtxState' = IF inputContextRef # "null" THEN "closed" ELSE inputCtxState
  /\ audioContextRef' = IF audioContextRef # "null" THEN RefAfterRelease(audioContextRef)
                                                    ELSE audioContextRef
  /\ audioCtxState' = IF audioContextRef # "null" THEN "closed" ELSE audioCtxState
  /\ cleanupThrew' = (cleanupThrew \/ CloseFails(inputContextRef, inputCtxState)
                                   \/ CloseFails(audioContextRef, audioCtxState))
  /\ tracks' = IF ~mediaStreamRef.isNull
                 THEN StopAll(tracks, getTracks(mediaStreamRef.tracks, tracks))
                 ELSE tracks
  /\ sessionRef' = IF sessionRef # "null" THEN RefAfterRelease(sessionRef) ELSE sessionRef
  /\ cleanupCalls' = cleanupCalls + 1
  /\ cleanupRun' = cleanupRun + 1
  /\ micSnap' = NoSnap
  /\ lastOp' = "cleanup"
  /\ UNCHANGED << uiVars, mediaStreamRef, closureIsMicOn, sessionState,
                  promiseState, initPc, playVars, capVars, swapVars,
                  startupLog >>

\* the component unmounts: React detaches videoRef and runs the effect's
\* cleanup
Unmount ==
  /\ mounted
  /\ mounted' = FALSE
  /\ cleanup
  /\ UNCHANGED appVars

\* cleanup invoked again on the released component
CleanupAgain ==
  /\ ~mounted
  /\ cleanupCalls < MaxCleanups
  /\ UNCHANGED mounted
  /\ cleanup
  /\ UNCHANGED appVars

\* ---- App -----------------------------------------------------------------
\* variant: the welcome screen stays available on the "Interview Ended" screen
WelcomeScreenRendered_WhileEnded == appState \in {"SETUP", "ENDED"}

\* {appState === AppState.SETUP && <WelcomeScreen onStart={handleStart} />}
WelcomeScreenRendered == appState = "SETUP"

\* {appState === AppState.INTERVIEW && userConfig && <InterviewSession ... />}
InterviewSessionRendered == appState = "INTERVIEW" /\ userConfig # NoConfig

\* the form of the welcome screen is submitted: App renders a new
\* InterviewSession, whose state the component variables describe from here
handleStart(config) ==
  /\ WelcomeScreenRendered
  /\ interviews < MaxInterviews
  /\ userConfig' = config
  /\ appState' = "INTERVIEW"
  /\ interviews' = interviews + 1
  /\ UNCHANGED timers
  /\ \* the values of InterviewSessionMounted
    /\ isConnected' = FALSE /\ isMicOn' = TRUE /\ isCameraOn' = TRUE
    /\ isScreenSharing' = FALSE /\ error' = FALSE
    /\ mounted' = TRUE
    /\ mediaStreamRef' = NoStream
    /\ audioContextRef' = "null" /\ inputContextRef' = "null"
    /\ processorRef' = "null" /\ sourceRef' = "null"
    /\ nextStartTimeRef' = 0 /\ sessionRef' = "null"
    /\ closureIsMicOn' = TRUE
    /\ tracks' = << >>
    /\ inputCtxState' = "none" /\ audioCtxState' = "none"
    /\ procState' = "none"
    /\ sessionState' = "none" /\ promiseState' = "none"
    /\ initPc' = "awaitGUM"
    /\ inflight' = {}
    /\ pendingShare' = 0 /\ pendingStop' = 0
    /\ pendingSends' = << >>
    /\ now' = 0
    /\ scheduled' = << >>
    /\ epoch' = 0
    /\ resetInfo' = [armed |-> FALSE, sigNow |-> 0, preNst |-> 0]
    /\ msgCount' = 0 /\ frames' = 0 /\ sent' = 0 /\ mutedSent' = 0
    /\ terminal' = "no"
    /\ startupLog' = << >>
    /\ cleanupCalls' = 0 /\ cleanupThrew' = FALSE /\ cleanupRun' = 0
    /\ lastOp' = "mount"
    /\ lastNew' = 0 /\ lastOld' = 0
    /\ micSnap' = NoSnap

\* the End button of the rendered session is clicked: App leaves INTERVIEW,
\* which unmounts the InterviewSession
handleEnd ==
  /\ InterviewSessionRendered /\ mounted
  /\ appState' = "ENDED"
  /\ timers' = timers \cup {interviews}
  /\ UNCHANGED << userConfig, interviews >>
  /\ mounted' = FALSE
  /\ cleanup

\* the callback of the setTimeout set by the handleEnd of interview i
ResetTimeout(i) ==
  /\ i \in timers
  /\ timers' = timers \ {i}
  /\ appState' = "SETUP"
  /\ userConfig' = NoConfig
  /\ UNCHANGED interviews
  /\ IF InterviewSessionRendered /\ mounted
       THEN \* a rendered session is unmounted by the re-render
            mounted' = FALSE /\ cleanup
       ELSE /\ ResetRuns
            /\ lastOp' = "resetTimeout"
            /\ UNCHANGED << uiVars, mounted, mediaStreamRef, tracks,
                            closureIsMicOn, ctxVars, procVars, sessVars,
                            initPc, playVars, capVars, swapVars,
                            cleanupCalls, cleanupThrew >>

ResetTimeouts == \E i \in timers : ResetTimeout(i)

\* ---- specifications -------------------------------------------------------
InitStep ==
  \/ \E apiOk \in BOOLEAN : InitGetUserMediaResolve(apiOk)
  \/ InitGetUserMediaReject

Teardown ==
  \/ Unmount
  \/ CleanupAgain

Session ==
  \/ onopen
  \/ ConnectResolve
  \/ ConnectReject
  \/ onclose
  \/ onerror

Playback ==
  \/ \E audio \in BOOLEAN, interrupted \in BOOLEAN : onmessage(audio, interrupted)
  \/ \E c \in inflight, r \in DecodeResults : DecodeComplete(c, r)
  \/ Tick

Capture ==
  \/ onaudioprocess
  \/ toggleMic

Devices ==
  \/ toggleMic
  \/ toggleCamera
  \/ toggleScreenShare
  \/ ScreenShareResolve
  \/ ScreenShareReject
  \/ StopShareResolve
  \/ StopShareReject
  \/ \E t \in 1..Len(tracks) : ScreenTrackEnded(t)

AppSteps ==
  \/ \E config \in UserConfigs : handleStart(config)
  \/ handleEnd
  \/ ResetTimeouts

\* the whole program
Next == InitStep \/ Session \/ Teardown \/ Playback \/ Capture \/ Devices \/ AppSteps

Spec == Init /\ [][Next]_vars

\* The inbound path.  Left out are the handlers that write none of the
\* variables the playback handlers read (the capture callback, the device
\* handlers, and the settling of the connect promise).
NextPlayback ==
  \/ \E apiOk \in BOOLEAN : InitGetUserMediaResolve(apiOk)
  \/ onopen
  \/ onclose
  \/ Unmount
  \/ Playback

SpecPlayback == Init /\ [][NextPlayback]_vars

\* The capture path: the lifecycle, the capture callback and the mute toggle.
NextCapture == InitStep \/ Session \/ Unmount \/ Capture

SpecCapture == Init /\ [][NextCapture]_vars

\* The device/track manager and teardown.  Left out are the handlers that
\* write none of the variables the device handlers and cleanup read (the
\* capture callback, the inbound path, and the session events after onopen).
NextDevices == InitStep \/ onopen \/ Teardown \/ Devices

SpecDevices == Init /\ [][NextDevices]_vars

\* Startup and its failure paths: init, the session events, and the first
\* effects of both data paths (a captured frame, a scheduled buffer).  Left
\* out are the clock and the user's toggles, which decide neither whether
\* the pipeline starts nor in which order its parts are created.
NextStartup ==
  \/ InitStep
  \/ Session
  \/ Unmount
  \/ onaudioprocess
  \/ \E audio \in BOOLEAN, interrupted \in BOOLEAN : onmessage(audio, interrupted)
  \/ \E c \in inflight, r \in DecodeResults : DecodeComplete(c, r)

SpecStartup == Init /\ [][NextStartup]_vars

\* Screen sharing alone: init, unmount, the share toggle, the settling of
\* its acquisitions and the external end of a screen track.  Every
\* getUserMedia call of stopScreenShare settles, one way or the other.
NextShare ==
  \/ InitStep
  \/ Unmount
  \/ toggleScreenShare
  \/ ScreenShareResolve
  \/ ScreenShareReject
  \/ StopShareResolve
  \/ StopShareReject
  \/ \E t \in 1..Len(tracks) : ScreenTrackEnded(t)

SpecShare ==
  Init /\ [][NextShare]_vars /\ WF_vars(StopShareResolve \/ StopShareReject)

\* App and the life of the sessions it renders: start, end and the delayed
\* reset, with the session's init, onopen and the mute and camera toggles.
\* Every timeout set by handleEnd fires.
NextApp ==
  \/ AppSteps
  \/ InitStep
  \/ onopen
  \/ toggleMic
  \/ toggleCamera

SpecApp == Init /\ [][NextApp]_vars /\ WF_vars(ResetTimeouts)

\* ---- properties -----------------------------------------------------------
Sched == 1..Len(scheduled)

\* no reset of nextStartTimeRef was executed from the arrival of either chunk
\* to the scheduling of the later-scheduled one (i is scheduled before j)
NoResetBetween(i, j) ==
  Min(scheduled[i].arrEpoch, scheduled[j].arrEpoch) = scheduled[j].schedEpoch

C2_ArrivalOrder ==
  \A i, j \in Sched :
    (scheduled[i].seq < scheduled[j].seq
       /\ NoResetBetween(Min(i, j), Max(i, j))) =>
      scheduled[i].start <= scheduled[j].start

\* C3 as stated: the first buffer scheduled after a handled interruption
\* starts no later than the output clock read when the signal arrived.
C3_StartBeforeSignalClock ==
  \A i \in Sched :
    scheduled[i].afterReset => scheduled[i].start <= scheduled[i].sigNow

\* C3: the first buffer scheduled after a handled interruption starts no
\* later than the output clock read when that buffer is scheduled, whatever
\* value nextStartTimeRef had before the signal.
C3_StartNotAfterClock ==
  \A i \in Sched :
    scheduled[i].afterReset => scheduled[i].start <= scheduled[i].at

\* a buffer scheduled first after a reset that discarded a start time lying
\* in the future of the clock
C3_Witness ==
  \E i \in Sched :
    scheduled[i].afterReset /\ scheduled[i].preNst > scheduled[i].sigNow

\* C4: no frame captured while the session is muted reaches the transport's
\* send operation.
C4_NoSendWhileMuted == mutedSent = 0

\* C5: after two consecutive toggleMic calls isMicOn, the enabled flag of
\* every audio track and whether captured frames are transmitted are what
\* they were before the first call.
C5_ToggleTwiceRestores ==
  (lastOp = "toggleMic" /\ micSnap.run = 2) =>
     /\ isMicOn = micSnap.isMicOn
     /\ AudioFlags = micSnap.audio
     /\ Transmits = micSnap.transmits

\* two consecutive toggles of an acquired stream whose frames are transmitted
C5_Witness ==
  /\ lastOp = "toggleMic" /\ micSnap.run = 2
  /\ AudioFlags # << >>
  /\ Transmits

StreamVideo == getVideoTracks(mediaStreamRef.tracks, tracks)

\* C6: after every completed video transition the shared stream holds
\* exactly one video track, the newly acquired one, live, and the track it
\* replaced has been stopped and removed.
C6_SwapComplete ==
  lastOp \in {"screenShareResolve", "stopShareResolve"} =>
     /\ ~mediaStreamRef.isNull
     /\ StreamVideo = << lastNew >>
     /\ tracks[lastNew].live
     /\ lastOld # 0
     /\ ~tracks[lastOld].live
     /\ lastOld \notin Elems(mediaStreamRef.tracks)

\* C7: while the component is in use the device set is never half-swapped:
\* the video track attached to the shared stream is live, and every live
\* track that was acquired is attached to the shared stream.
C7_NoHalfSwap ==
  (mounted /\ cleanupCalls = 0) =>
     /\ ~mediaStreamRef.isNull => \A i \in 1..Len(StreamVideo) : tracks[StreamVideo[i]].live
     /\ \A t \in 1..Len(tracks) :
          tracks[t].live => (~mediaStreamRef.isNull /\ t \in Elems(mediaStreamRef.tracks))

VideoOps ==
  {"toggleCamera", "toggleScreenShare", "screenShareResolve", "screenShareReject",
   "screenShareFailed", "stopShareResolve", "stopShareReject", "stopShareFailed",
   "screenTrackEnded"}

\* C8: no step of toggleCamera, toggleScreenShare or stopScreenShare,
\* successful or failed, changes the identity, liveness or enabled flag of
\* the audio track of the shared stream.
C8_AudioUntouched ==
  [][lastOp' \in VideoOps => AudioFlags' = AudioFlags]_vars

\* a completed swap of the video track of a stream whose audio track is live
C8_Witness ==
  /\ lastOp \in {"screenShareResolve", "stopShareResolve"}
  /\ ~mediaStreamRef.isNull /\ lastNew \in Elems(mediaStreamRef.tracks)
  /\ AudioFlags # << >> /\ AudioFlags[1].live

Released ==
  << processorRef, sourceRef, procState, inputContextRef, inputCtxState,
     audioContextRef, audioCtxState, mediaStreamRef, tracks, sessionRef >>

NoStreamTrackLive ==
  ~mediaStreamRef.isNull =>
    \A i \in 1..Len(mediaStreamRef.tracks) : ~tracks[mediaStreamRef.tracks[i]].live

\* C9: every invocation of cleanup raises no error and leaves no track of
\* the shared stream live, and an invocation that directly follows another
\* changes nothing of what cleanup releases.
C9_CleanupIdempotent ==
  [][(lastOp' = "cleanup" /\ cleanupCalls' = cleanupCalls + 1) =>
        /\ ~cleanupThrew'
        /\ NoStreamTrackLive'
        /\ (lastOp = "cleanup" => Released' = Released)]_vars

\* cleanup invoked twice in succession on a session that had acquired its
\* stream and opened its audio contexts
C9_Witness ==
  /\ lastOp = "cleanup" /\ cleanupRun = 2
  /\ ~mediaStreamRef.isNull
  /\ inputCtxState = "closed" /\ audioCtxState = "closed"

\* C10: once cleanup has run, in every later state no device track is live,
\* no audio context is open, no capture processor is connected and no
\* session handle is held.
C10_NoLeakAfterCleanup ==
  cleanupCalls > 0 =>
     /\ \A t \in 1..Len(tracks) : ~tracks[t].live
     /\ inputCtxState # "running" /\ audioCtxState # "running"
     /\ procState # "connected"
     /\ sessionRef = "null"

AllReleased ==
  /\ procState # "connected"
  /\ inputCtxState # "running" /\ audioCtxState # "running"
  /\ \A t \in 1..Len(tracks) : ~tracks[t].live
  /\ sessionRef = "null"

\* C11: once onclose or onerror has been delivered, the capture processor
\* is disconnected, both audio contexts are closed, every device track is
\* stopped, the session handle is dropped, and no frame is sent any more.
C11_TerminalReleases ==
  terminal # "no" => (AllReleased /\ terminal # "sent")

\* C12: from one step to the next nextStartTimeRef never decreases, except
\* in the step that handles an interruption signal, where it becomes 0.
C12_ClockMonotone ==
  [][nextStartTimeRef' < nextStartTimeRef
       => (epoch' = epoch + 1 /\ nextStartTimeRef' = 0)]_vars

\* an interruption has just taken a positive clock back to 0 while another
\* chunk is still being decoded
C12_Witness ==
  /\ resetInfo.armed /\ resetInfo.preNst > 0
  /\ nextStartTimeRef = 0
  /\ inflight # {}

\* getUserMedia of init rejected: init ended in its catch without a stream
GumFailed == initPc = "failed" /\ mediaStreamRef.isNull

\* C13: when the camera/microphone acquisition of init fails, the mounted
\* component shows a non-null error and the pipeline never starts: no audio
\* context is created, no session is opened, no frame is sent and no buffer
\* is scheduled.
C13_AcquisitionFailure ==
  GumFailed =>
    /\ mounted => error
    /\ inputCtxState = "none" /\ audioCtxState = "none"
    /\ inputContextRef = "null" /\ audioContextRef = "null"
    /\ sessionState = "none" /\ sessionRef = "null"
    /\ procState = "none"
    /\ frames = 0 /\ sent = 0 /\ pendingSends = << >>
    /\ inflight = {} /\ scheduled = << >>

C13_Witness == GumFailed /\ mounted /\ error /\ lastOp = "initFailed"

\* C14: whenever the connect started by init has ended in failure, or the
\* session has just reported a runtime error, the mounted component's error
\* is non-null.
C14_SessionFailureShown ==
  (mounted /\ (promiseState = "rejected" \/ lastOp = "onerror")) => error

\* C15: every buffer is scheduled at max(nextStartTimeRef, currentTime) with
\* both read when its decode completes, so no buffer starts earlier than the
\* output clock's time at the moment it is scheduled.  (start records
\* nextStartTimeRef at that moment, at records the clock.)
C15_ScheduledAtMax ==
  \A i \in Sched : scheduled[i].start = Max(scheduled[i].start, scheduled[i].at)

\* C16: the first buffer scheduled after an interruption reset, when its
\* chunk arrived after that reset, starts at the output clock's current
\* time and not at a value left from before the reset.
C16_AfterResetStartsNow ==
  \A i \in Sched :
    (scheduled[i].afterReset /\ scheduled[i].arrEpoch = scheduled[i].schedEpoch)
      => scheduled[i].start = scheduled[i].at

\* C17: a chunk whose decode fails schedules nothing and leaves
\* nextStartTimeRef at the value it had just before the chunk arrived (taken
\* for a chunk without the interrupted flag, no other handler having
\* written the clock between its arrival and its failure).
C17_FailedDecodeKeepsClock ==
  [][\A c \in inflight :
       ( /\ c \notin inflight' /\ scheduled' = scheduled
         /\ ~c.interrupted
         /\ nextStartTimeRef = ArrivalClock(c.nstBefore, c.arrNow) )
       => nextStartTimeRef' = c.nstBefore]_vars

\* C18: the capture path is a push, not a queue: every captured frame has
\* either been handed to the send operation at once or been dropped, so no
\* frame is ever held for later transmission, in particular not while the
\* session handle exists and the session has not resolved.
C18_NoFrameHeld ==
  /\ pendingSends = << >>
  /\ frames >= sent

\* the video track of the mounted component's stream is a screen track
\* whose capture has just been ended from outside
ActiveScreenEnded ==
  /\ lastOp = "screenTrackEnded"
  /\ mounted /\ ~mediaStreamRef.isNull
  /\ \E i \in 1..Len(StreamVideo) :
       tracks[StreamVideo[i]].kind = "screen" /\ ~tracks[StreamVideo[i]].live

\* stopScreenShare has just put a newly acquired, live camera track in the
\* stream as its only video track and cleared isScreenSharing
RevertedToCamera ==
  /\ lastOp = "stopShareResolve"
  /\ ~mediaStreamRef.isNull /\ StreamVideo = << lastNew >>
  /\ tracks[lastNew].kind = "camera" /\ tracks[lastNew].live
  /\ ~isScreenSharing

\* C19: when the active screen track ends from outside, then without any
\* user toggle the stream's video track eventually is a fresh camera track
\* and isScreenSharing is false, unless the camera acquisition fails or the
\* component is unmounted first.
C19_EndedLeadsToCamera ==
  ActiveScreenEnded ~>
    (RevertedToCamera \/ lastOp = "stopShareReject" \/ ~mounted)

\* the active screen track has just ended from outside and its onended
\* handler has called stopScreenShare, whose getUserMedia is pending
C19_Witness ==
  ActiveScreenEnded /\ isScreenSharing /\ pendingStop > 0

\* step e was taken, and step d was taken before it
Logged(e) == \E i \in 1..Len(startupLog) : startupLog[i] = e

Before(d, e) ==
  \A i \in 1..Len(startupLog) :
    startupLog[i] = e => \E j \in 1..(i - 1) : startupLog[j] = d

\* C20: the session open is started only after both audio contexts exist,
\* the contexts are created only after the camera+microphone stream has
\* been acquired, and the capture processor is created only after the
\* session's onopen event.
C20_StartupOrder ==
  /\ Before("inputContext", "connect") /\ Before("outputContext", "connect")
  /\ Before("stream", "inputContext") /\ Before("stream", "outputContext")
  /\ Before("onopen", "processor")
  /\ sessionState # "none" => (Logged("connect") /\ ~mediaStreamRef.isNull)
  /\ inputCtxState # "none" => Logged("inputContext")
  /\ audioCtxState # "none" => Logged("outputContext")
  /\ procState # "none" => (Logged("processor") /\ sessionState \in {"open", "closed"})

C20_Witness ==
  /\ procState = "connected" /\ sessionState = "open"
  /\ inputCtxState = "running" /\ audioCtxState = "running"
  /\ startupLog = InitOrder \o << "onopen", "processor" >>

\* C21: once a media stream has been acquired, isCameraOn equals the
\* enabled flag of the stream's video track, whatever toggleCamera,
\* toggleScreenShare and stopScreenShare have done (taken for the mounted
\* component).
C21_CameraFlagMatchesTrack ==
  (mounted /\ ~mediaStreamRef.isNull) =>
    \A i \in 1..Len(StreamVideo) : tracks[StreamVideo[i]].enabled = isCameraOn

\* the stream's video track is a live screen track
ActiveIsLiveScreen ==
  /\ ~mediaStreamRef.isNull
  /\ \E i \in 1..Len(StreamVideo) :
       tracks[StreamVideo[i]].kind = "screen" /\ tracks[StreamVideo[i]].live

\* C22: whenever no video transition is in flight, isScreenSharing is true
\* exactly when the stream's video track is a live screen track, also when
\* no stream was acquired (taken for the mounted component).
C22_SharingFlagMatchesTrack ==
  (mounted /\ pendingShare = 0 /\ pendingStop = 0) =>
    (isScreenSharing <=> ActiveIsLiveScreen)

\* C23: an interview in state INTERVIEW has a non-null userConfig and
\* leaves that state only through its own handleEnd (to ENDED, its config
\* kept, its own reset scheduled): no reset scheduled by an earlier
\* handleEnd moves it to SETUP or clears its userConfig.  Every handleEnd is
\* eventually followed by state SETUP with userConfig null.
C23_InterviewEndsByHandleEnd ==
  /\ [](appState = "INTERVIEW" => userConfig # NoConfig)
  /\ [][appState = "INTERVIEW" =>
          \/ appState' = "INTERVIEW" /\ userConfig' = userConfig
          \/ /\ appState' = "ENDED" /\ userConfig' = userConfig
             /\ timers' = timers \cup {interviews}]_vars
  /\ (appState = "ENDED" ~> (appState = "SETUP" /\ userConfig = NoConfig))

\* a second interview is running after the first was ended and reset
C23_Witness ==
  /\ interviews = 2 /\ appState = "INTERVIEW" /\ userConfig # NoConfig
  /\ mounted /\ initPc = "done"

====
